---- MODULE Spec2Model ----
(***************************************************************************)
(* Model of the response parsers of src/src/hooks/use-native-camera.ts     *)
(* (MarkdownSectionParser, parseSolveResponse, parseImproveResponse) and   *)
(* of the streaming loop of src/src/ai/openai.ts (OpenAiClient.sendMedia,  *)
(* OpenAiClient.sendChat), and of the camera flow of the upload area       *)
(* (runCameraFlow of src/unnamed/part_001 with useNativeCamera.capture).   *)
(*                                                                         *)
(* Representation of markdown strings.  A string is the sequence of its    *)
(* lines; each line is a TLA+ string holding the line's text.  The empty   *)
(* sequence is the empty string, the line "" is a blank (whitespace-only)  *)
(* line.  String concatenation of whole lines is \o, String.trim() drops   *)
(* the blank lines at both ends, and !s   (the empty string is falsy) is   *)
(* s = <<>>.  The lines are drawn from a finite alphabet of headings,      *)
(* fences, text lines and the problem separator, each on a line of its     *)
(* own.                                                                    *)
(***************************************************************************)
EXTENDS Naturals, Sequences, FiniteSets

VARIABLES
    pc,          \* position of the call under study: "call", "done", ...
    input,       \* the string argument of the call
    steps,       \* return value of MarkdownSectionParser.parseSteps
    tokens,      \* MarkdownSectionParser.tokens after the constructor
    sections,    \* return value of getSectionsByH3
    solved,      \* return value of parseSolveResponse (its problems list)
    unwrapped,   \* problems list of the same body parsed without a fence
    body,        \* the body the fenced input was built from
    improved,    \* return value of parseImproveResponse (<<>> is null)
    method,      \* "sendMedia" or "sendChat"
    maxPollMs,   \* this.config.maxPollMs
    delivered,   \* the stream events the for-await loop has consumed
    elapsed,     \* Date.now() - startTime at the last reading
    aggregated,  \* the local aggregated
    calls,       \* the arguments the callback was invoked with, in order
    aborted,     \* controller.abort() was called
    finalResponse, \* what stream.finalResponse() resolved with (<<>>: not yet)
    returned,    \* <<value>> once the call has returned
    thrown,      \* <<message>> once the call has thrown
    isWorking,   \* the isWorking runCameraFlow closed over
    isNative,    \* Capacitor.isNativePlatform()
    mounted,     \* cameraInputRef.current holds the hidden camera input
    captureCalls,  \* number of calls of useNativeCamera.capture
    checked,     \* <<status>> Camera.checkPermissions resolved with
    requested,   \* <<status>> Camera.requestPermissions resolved with
    getPhotoCalls, \* number of calls of Camera.getPhoto
    photo,       \* <<photo>> Camera.getPhoto resolved with
    files,       \* <<list>> capture resolved with
    appendCalls, \* the arguments appendFiles was called with, in order
    clicks       \* number of click() calls on the hidden camera input

parserVars == <<steps, tokens, sections, solved, unwrapped, body, improved>>
streamVars == <<method, maxPollMs, delivered, elapsed, aggregated, calls,
                aborted, finalResponse, returned, thrown>>
cameraVars == <<isWorking, isNative, mounted, captureCalls, checked, requested,
                getPhotoCalls, photo, files, appendCalls, clicks>>
vars == <<pc, input, parserVars, streamVars, cameraVars>>

(***************************************************************************)
(* Lines                                                                   *)
(***************************************************************************)
Separator == "---PROBLEM_SEPARATOR---"
\* The fence lines.  A TLA+ string cannot hold the backquote character, so the
\* three backquotes of a fence line are written as three apostrophes.
Fence == "'''"
TaggedFence == "'''text"

\* ATX headings of the alphabet: the number of leading '#'.
HeadingDepth(line) ==
    CASE line \in {"## Notes"} -> 2
      [] line \in {"### PROBLEM_TEXT", "### EXPLANATION", "### ANSWER",
                   "### IMPROVED_EXPLANATION", "### IMPROVED_ANSWER",
                   "### UNRELATED", "###"} -> 3
      [] line \in {"#### Step 1: A", "#### Step 2: B"} -> 4
      [] OTHER -> 0

\* token.text of a heading line: what follows the '#'s, trimmed.
HeadingText(line) ==
    CASE line = "## Notes" -> "Notes"
      [] line = "### PROBLEM_TEXT" -> "PROBLEM_TEXT"
      [] line = "### EXPLANATION" -> "EXPLANATION"
      [] line = "### ANSWER" -> "ANSWER"
      [] line = "### IMPROVED_EXPLANATION" -> "IMPROVED_EXPLANATION"
      [] line = "### IMPROVED_ANSWER" -> "IMPROVED_ANSWER"
      [] line = "### UNRELATED" -> "UNRELATED"
      [] line = "#### Step 1: A" -> "Step 1: A"
      [] line = "#### Step 2: B" -> "Step 2: B"
      [] OTHER -> ""

\* A whitespace-only line, or (in the streamed text, a sequence of characters)
\* a whitespace character.
IsBlank(line) == line \in {"", " "}
IsFenceOpen(line) == line \in {Fence, TaggedFence}
IsHeading(line) == HeadingDepth(line) > 0
IsText(line) == ~IsBlank(line) /\ ~IsFenceOpen(line) /\ ~IsHeading(line)

(***************************************************************************)
(* String.prototype.trim on a sequence of lines                            *)
(***************************************************************************)
RECURSIVE TrimStart(_)
TrimStart(s) ==
    IF s # <<>> /\ IsBlank(Head(s)) THEN TrimStart(Tail(s)) ELSE s

RECURSIVE TrimEnd(_)
TrimEnd(s) ==
    IF s # <<>> /\ IsBlank(s[Len(s)]) THEN TrimEnd(SubSeq(s, 1, Len(s) - 1))
    ELSE s

Trim(s) == TrimEnd(TrimStart(s))

(***************************************************************************)
(* marked's block lexer, lexer(src), on a sequence of lines                *)
(***************************************************************************)
Token(type, depth, text, raw) ==
    [type |-> type, depth |-> depth, text |-> text, raw |-> raw]

\* Number of consecutive blank lines of src from line i on.
RECURSIVE BlankRun(_, _)
BlankRun(src, i) ==
    IF i <= Len(src) /\ IsBlank(src[i]) THEN 1 + BlankRun(src, i + 1) ELSE 0

\* Number of consecutive paragraph lines of src from line i on.
RECURSIVE TextRun(_, _)
TextRun(src, i) ==
    IF i <= Len(src) /\ IsText(src[i]) THEN 1 + TextRun(src, i + 1) ELSE 0

\* The line that ends the fenced code block whose content starts at line j:
\* the first bare fence, or the last line of src when the fence is not closed.
RECURSIVE FenceEnd(_, _)
FenceEnd(src, j) ==
    IF j >= Len(src) THEN Len(src)
    ELSE IF src[j] = Fence THEN j
    ELSE FenceEnd(src, j + 1)

RECURSIVE LexFrom(_, _)
LexFrom(src, i) ==
    IF i > Len(src) THEN <<>>
    ELSE IF IsBlank(src[i]) THEN
        LET n == BlankRun(src, i)
        IN  <<Token("space", 0, "", SubSeq(src, i, i + n - 1))>>
                \o LexFrom(src, i + n)
    ELSE IF IsFenceOpen(src[i]) THEN
        LET e == FenceEnd(src, i + 1)
        IN  <<Token("code", 0, "", SubSeq(src, i, e))>> \o LexFrom(src, e + 1)
    ELSE IF IsHeading(src[i]) THEN
        LET n == BlankRun(src, i + 1)
        IN  <<Token("heading", HeadingDepth(src[i]), HeadingText(src[i]),
                    SubSeq(src, i, i + n))>> \o LexFrom(src, i + n + 1)
    ELSE
        LET n == TextRun(src, i)
        IN  <<Token("paragraph", 0, "", SubSeq(src, i, i + n - 1))>>
                \o LexFrom(src, i + n)

lexer(src) == LexFrom(src, 1)

(***************************************************************************)
(* class MarkdownSectionParser                                             *)
(***************************************************************************)
\* The fence regex /^FFF(?:\w+\s*)?\n?([\s\S]*)\n?FFF$/ (F a backquote) on the
\* trimmed content: the first line opens a fence, with or without a language
\* tag, and the text ends with a bare fence; the greedy group is what lies
\* between the first line and that last fence.
trimMarkdownFence(content) ==
    LET c == Trim(content)
    IN  IF Len(c) >= 2 /\ IsFenceOpen(c[1]) /\ c[Len(c)] = Fence
        THEN Trim(SubSeq(c, 2, Len(c) - 1))
        ELSE c

\* constructor(markdown): this.tokens
constructor(markdown) == lexer(trimMarkdownFence(markdown))

\* let currentKey: string | null = null
NullKey == "<null>"
Truthy(key) == key # NullKey /\ key # ""

\* sections[key] = value on a Record<string, string>
SetKey(map, key, value) ==
    [k \in DOMAIN map \cup {key} |-> IF k = key THEN value ELSE map[k]]

\* SectionsIteration that starts a body only for a key not seen before, so that
\* a repeated heading goes on appending to the existing body.
SectionsIterationKeepBody(st, token) ==
    IF token.type = "heading" /\ token.depth = 3
    THEN IF ~Truthy(token.text)
         THEN [sections |-> st.sections, currentKey |-> token.text]
         ELSE [sections |-> IF token.text \in DOMAIN st.sections
                            THEN st.sections
                            ELSE SetKey(st.sections, token.text, <<>>),
               currentKey |-> token.text]
    ELSE IF Truthy(st.currentKey)
    THEN [sections |-> SetKey(st.sections, st.currentKey,
                              st.sections[st.currentKey] \o token.raw),
          currentKey |-> st.currentKey]
    ELSE st

\* SectionsIteration that takes every heading of depth 3 or more as a section
\* heading.
SectionsIterationDeeper(st, token) ==
    IF token.type = "heading" /\ token.depth >= 3
    THEN IF ~Truthy(token.text)
         THEN [sections |-> st.sections, currentKey |-> token.text]
         ELSE [sections |-> SetKey(st.sections, token.text, <<>>),
               currentKey |-> token.text]
    ELSE IF Truthy(st.currentKey)
    THEN [sections |-> SetKey(st.sections, st.currentKey,
                              st.sections[st.currentKey] \o token.raw),
          currentKey |-> st.currentKey]
    ELSE st

\* One iteration of the for loop of getSectionsByH3 on the loop state
\* [sections, currentKey].
SectionsIteration(st, token) ==
    IF token.type = "heading" /\ token.depth = 3
    THEN IF ~Truthy(token.text)
         THEN [sections |-> st.sections, currentKey |-> token.text]
         ELSE [sections |-> SetKey(st.sections, token.text, <<>>),
               currentKey |-> token.text]
    ELSE IF Truthy(st.currentKey)
    THEN [sections |-> SetKey(st.sections, st.currentKey,
                              st.sections[st.currentKey] \o token.raw),
          currentKey |-> st.currentKey]
    ELSE st

RECURSIVE SectionsLoop(_, _, _)
SectionsLoop(toks, i, st) ==
    IF i > Len(toks) THEN st
    ELSE SectionsLoop(toks, i + 1, SectionsIteration(st, toks[i]))

\* getSectionsByH3() of a parser whose tokens are toks
getSectionsByH3(toks) ==
    LET st == SectionsLoop(toks, 1, [sections |-> <<>>, currentKey |-> NullKey])
    IN  [k \in DOMAIN st.sections |-> Trim(st.sections[k])]

\* One iteration of the for loop of parseSteps on the loop state
\* [steps, currentStep]; currentStep is <<>> for null, <<step>> otherwise.
StepsIteration(st, token) ==
    IF token.type = "heading" /\ token.depth = 4
    THEN [steps |-> st.steps \o st.currentStep,
          currentStep |-> <<[title |-> token.text, content |-> <<>>]>>]
    ELSE IF st.currentStep # <<>>
    THEN [steps |-> st.steps,
          currentStep |-> <<[title |-> st.currentStep[1].title,
                             content |-> st.currentStep[1].content \o token.raw]>>]
    ELSE st

RECURSIVE StepsLoop(_, _, _)
StepsLoop(toks, i, st) ==
    IF i > Len(toks) THEN st
    ELSE StepsLoop(toks, i + 1, StepsIteration(st, toks[i]))

\* parseSteps without the push of the last step after the loop.
parseStepsNoLastPush(explanationText) ==
    IF explanationText = <<>> THEN <<>>
    ELSE
        LET st == StepsLoop(lexer(explanationText), 1,
                            [steps |-> <<>>, currentStep |-> <<>>])
            pushed == st.steps
            cleaned == [n \in 1..Len(pushed) |->
                           [title |-> pushed[n].title,
                            content |-> Trim(pushed[n].content)]]
        IN  IF Len(cleaned) = 0 /\ Trim(explanationText) # <<>>
            THEN <<[title |-> "Detailed Explanation",
                    content |-> Trim(explanationText)]>>
            ELSE cleaned

\* parseSteps whose fallback step holds the text as given, not trimmed.
parseStepsUntrimmedFallback(explanationText) ==
    IF explanationText = <<>> THEN <<>>
    ELSE
        LET st == StepsLoop(lexer(explanationText), 1,
                            [steps |-> <<>>, currentStep |-> <<>>])
            pushed == st.steps \o st.currentStep
            cleaned == [n \in 1..Len(pushed) |->
                           [title |-> pushed[n].title,
                            content |-> Trim(pushed[n].content)]]
        IN  IF Len(cleaned) = 0 /\ Trim(explanationText) # <<>>
            THEN <<[title |-> "Detailed Explanation",
                    content |-> explanationText]>>
            ELSE cleaned

\* static parseSteps(explanationText)
parseSteps(explanationText) ==
    IF explanationText = <<>> THEN <<>>
    ELSE
        LET st == StepsLoop(lexer(explanationText), 1,
                            [steps |-> <<>>, currentStep |-> <<>>])
            pushed == st.steps \o st.currentStep
            cleaned == [n \in 1..Len(pushed) |->
                           [title |-> pushed[n].title,
                            content |-> Trim(pushed[n].content)]]
        IN  IF Len(cleaned) = 0 /\ Trim(explanationText) # <<>>
            THEN <<[title |-> "Detailed Explanation",
                    content |-> Trim(explanationText)]>>
            ELSE cleaned

(***************************************************************************)
(* parseSolveResponse                                                      *)
(***************************************************************************)
\* response.split("---PROBLEM_SEPARATOR---"): the runs of lines between the
\* separator lines; n separators give n + 1 chunks.
RECURSIVE SplitFrom(_, _, _)
SplitFrom(response, i, chunk) ==
    IF i > Len(response) THEN <<chunk>>
    ELSE IF response[i] = Separator
    THEN <<chunk>> \o SplitFrom(response, i + 1, <<>>)
    ELSE SplitFrom(response, i + 1, Append(chunk, response[i]))

Split(response) == SplitFrom(response, 1, <<>>)

\* sections[key] || ""
SectionOr(secs, key) == IF key \in DOMAIN secs THEN secs[key] ELSE <<>>

\* SolveIteration with the steps parsed from the whole chunk instead of from
\* its EXPLANATION section.
SolveIterationStepsOfChunk(problems, chunk) ==
    IF Trim(chunk) = <<>> THEN problems
    ELSE
        LET secs == getSectionsByH3(constructor(chunk))
            problemText == SectionOr(secs, "PROBLEM_TEXT")
            explanation == SectionOr(secs, "EXPLANATION")
            answer == SectionOr(secs, "ANSWER")
        IN  IF problemText # <<>> \/ explanation # <<>> \/ answer # <<>>
            THEN Append(problems, [problem |-> problemText,
                                   explanation |-> explanation,
                                   answer |-> answer,
                                   steps |-> parseSteps(Trim(chunk))])
            ELSE problems

\* SolveIteration with unshift in place of push.
SolveIterationUnshift(problems, chunk) ==
    IF Trim(chunk) = <<>> THEN problems
    ELSE
        LET secs == getSectionsByH3(constructor(chunk))
            problemText == SectionOr(secs, "PROBLEM_TEXT")
            explanation == SectionOr(secs, "EXPLANATION")
            answer == SectionOr(secs, "ANSWER")
        IN  IF problemText # <<>> \/ explanation # <<>> \/ answer # <<>>
            THEN <<[problem |-> problemText,
                    explanation |-> explanation,
                    answer |-> answer,
                    steps |-> parseSteps(explanation)]>> \o problems
            ELSE problems

\* One iteration of the for loop over rawChunks: the problems list after it.
SolveIteration(problems, chunk) ==
    IF Trim(chunk) = <<>> THEN problems
    ELSE
        LET secs == getSectionsByH3(constructor(chunk))
            problemText == SectionOr(secs, "PROBLEM_TEXT")
            explanation == SectionOr(secs, "EXPLANATION")
            answer == SectionOr(secs, "ANSWER")
        IN  IF problemText # <<>> \/ explanation # <<>> \/ answer # <<>>
            THEN Append(problems, [problem |-> problemText,
                                   explanation |-> explanation,
                                   answer |-> answer,
                                   steps |-> parseSteps(explanation)])
            ELSE problems

RECURSIVE SolveLoop(_, _, _)
SolveLoop(rawChunks, i, problems) ==
    IF i > Len(rawChunks) THEN problems
    ELSE SolveLoop(rawChunks, i + 1, SolveIteration(problems, rawChunks[i]))

\* The record of the fallback for completely failed parsing.
ErrorProblem(response) ==
    [problem |-> <<"Error parsing problem text">>,
     answer |-> <<>>,
     explanation |-> response,
     steps |-> <<[title |-> "Error", content |-> response]>>]

\* parseSolveResponse without the response.trim() test of the fallback.
parseSolveResponseNoTrimTest(response) ==
    LET problems == SolveLoop(Split(response), 1, <<>>)
    IN  IF Len(problems) = 0
        THEN <<ErrorProblem(response)>>
        ELSE problems

\* parseSolveResponse(response).problems
parseSolveResponse(response) ==
    LET problems == SolveLoop(Split(response), 1, <<>>)
    IN  IF Len(problems) = 0 /\ Trim(response) # <<>>
        THEN <<ErrorProblem(response)>>
        ELSE problems

(***************************************************************************)
(* parseImproveResponse                                                    *)
(***************************************************************************)
\* parseImproveResponse that gives up as soon as one of the two sections is
\* missing.
parseImproveResponseEither(response) ==
    LET secs == getSectionsByH3(constructor(response))
        improvedExplanation == SectionOr(secs, "IMPROVED_EXPLANATION")
        improvedAnswer == SectionOr(secs, "IMPROVED_ANSWER")
    IN  IF improvedExplanation = <<>> \/ improvedAnswer = <<>>
        THEN <<>>
        ELSE <<[improved_answer |-> improvedAnswer,
                improved_explanation |-> improvedExplanation,
                improved_steps |-> parseSteps(improvedExplanation)]>>

\* The result is <<>> for null and <<record>> for a record.
parseImproveResponse(response) ==
    LET secs == getSectionsByH3(constructor(response))
        improvedExplanation == SectionOr(secs, "IMPROVED_EXPLANATION")
        improvedAnswer == SectionOr(secs, "IMPROVED_ANSWER")
    IN  IF improvedExplanation = <<>> /\ improvedAnswer = <<>>
        THEN <<>>
        ELSE <<[improved_answer |-> improvedAnswer,
                improved_explanation |-> improvedExplanation,
                improved_steps |-> parseSteps(improvedExplanation)]>>

(***************************************************************************)
(* Inputs                                                                  *)
(***************************************************************************)
MaxStepsLines == 5
MaxSectionLines == 5
MaxImproveLines == 4
MaxSolveLines == 5

\* The strings of at most n lines over a set of lines.
Texts(lines, n) == UNION {[1..k -> lines] : k \in 0..n}

StepsLines ==
    {"", "C1", "C2", "#### Step 1: A", "#### Step 2: B", "### ANSWER", Fence}
SectionLines ==
    {"", "X", "### ANSWER", "### EXPLANATION", "###", "#### Step 1: A",
     "## Notes", Fence}
ImproveLines ==
    {"", "X", "### IMPROVED_EXPLANATION", "### IMPROVED_ANSWER",
     "### UNRELATED", "#### Step 1: A", TaggedFence, Fence}
SolveLines ==
    {"", "X", "### PROBLEM_TEXT", "### EXPLANATION", "### ANSWER",
     "#### Step 1: A", Fence, Separator}

ParserIdle ==
    /\ steps = <<>>
    /\ tokens = <<>>
    /\ sections = <<>>
    /\ solved = <<>>
    /\ unwrapped = <<>>
    /\ body = <<>>
    /\ improved = <<>>

StreamIdle ==
    /\ method = "none"
    /\ maxPollMs = 0
    /\ delivered = <<>>
    /\ elapsed = 0
    /\ aggregated = <<>>
    /\ calls = <<>>
    /\ aborted = FALSE
    /\ finalResponse = <<>>
    /\ returned = <<>>
    /\ thrown = <<>>

CameraIdle ==
    /\ isWorking = FALSE
    /\ isNative = FALSE
    /\ mounted = FALSE
    /\ captureCalls = 0
    /\ checked = <<>>
    /\ requested = <<>>
    /\ getPhotoCalls = 0
    /\ photo = <<>>
    /\ files = <<>>
    /\ appendCalls = <<>>
    /\ clicks = 0

(***************************************************************************)
(* MarkdownSectionParser.parseSteps applied to a string                    *)
(***************************************************************************)
InitSteps ==
    /\ pc = "call"
    /\ input \in Texts(StepsLines, MaxStepsLines)
    /\ ParserIdle
    /\ StreamIdle
    /\ CameraIdle

CallParseSteps ==
    /\ pc = "call"
    /\ steps' = parseSteps(input)
    /\ pc' = "done"
    /\ UNCHANGED <<input, tokens, sections, solved, unwrapped, body, improved,
                   streamVars, cameraVars>>

SpecSteps == InitSteps /\ [][CallParseSteps]_vars

(***************************************************************************)
(* new MarkdownSectionParser(markdown).getSectionsByH3()                   *)
(***************************************************************************)
InitSections ==
    /\ pc = "new"
    /\ input \in Texts(SectionLines, MaxSectionLines)
    /\ ParserIdle
    /\ StreamIdle
    /\ CameraIdle

Construct ==
    /\ pc = "new"
    /\ tokens' = constructor(input)
    /\ pc' = "constructed"
    /\ UNCHANGED <<input, steps, sections, solved, unwrapped, body, improved,
                   streamVars, cameraVars>>

CallGetSectionsByH3 ==
    /\ pc = "constructed"
    /\ sections' = getSectionsByH3(tokens)
    /\ pc' = "done"
    /\ UNCHANGED <<input, steps, tokens, solved, unwrapped, body, improved,
                   streamVars, cameraVars>>

NextSections == Construct \/ CallGetSectionsByH3

SpecSections == InitSections /\ [][NextSections]_vars

(***************************************************************************)
(* parseImproveResponse applied to a string                                *)
(***************************************************************************)
InitImprove ==
    /\ pc = "call"
    /\ input \in Texts(ImproveLines, MaxImproveLines)
    /\ ParserIdle
    /\ StreamIdle
    /\ CameraIdle

CallParseImprove ==
    /\ pc = "call"
    /\ improved' = parseImproveResponse(input)
    /\ pc' = "done"
    /\ UNCHANGED <<input, steps, tokens, sections, solved, unwrapped, body,
                   streamVars, cameraVars>>

SpecImprove == InitImprove /\ [][CallParseImprove]_vars

(***************************************************************************)
(* parseSolveResponse applied to a string, and then to the same string     *)
(* wrapped once in a fence                                                 *)
(***************************************************************************)
InitSolve ==
    /\ pc = "call"
    /\ input \in Texts(SolveLines, MaxSolveLines)
    /\ ParserIdle
    /\ StreamIdle
    /\ CameraIdle

CallParseSolve ==
    /\ pc \in {"call", "call fenced"}
    /\ solved' = parseSolveResponse(input)
    /\ pc' = IF pc = "call" THEN "done" ELSE "done fenced"
    /\ UNCHANGED <<input, steps, tokens, sections, unwrapped, body, improved,
                   streamVars, cameraVars>>

\* The caller's next response is the one just parsed, wrapped once in a
\* fence with or without a language tag.
WrapInFence ==
    /\ pc = "done"
    /\ \E open \in {Fence, TaggedFence} :
           input' = <<open>> \o input \o <<Fence>>
    /\ body' = input
    /\ unwrapped' = solved
    /\ pc' = "call fenced"
    /\ UNCHANGED <<steps, tokens, sections, solved, improved, streamVars,
                   cameraVars>>

NextSolve == CallParseSolve \/ WrapInFence

SpecSolve == InitSolve /\ [][NextSolve]_vars

(***************************************************************************)
(* Claims about parseSolveResponse (SpecSolve)                             *)
(***************************************************************************)
Returned == pc \in {"done", "done fenced"}

\* The sections of one chunk (a piece of the input between separators).
ChunkSections(chunk) == getSectionsByH3(constructor(chunk))

\* The chunk has a non-empty PROBLEM_TEXT, EXPLANATION or ANSWER section.
Yields(chunk) ==
    \E key \in {"PROBLEM_TEXT", "EXPLANATION", "ANSWER"} :
        SectionOr(ChunkSections(chunk), key) # <<>>

YieldingChunks(response) ==
    LET chunks == Split(response)
    IN  {i \in 1..Len(chunks) : Yields(chunks[i])}

\* C1: parseSolveResponse returns for every input, and its list is empty
\* exactly when the trimmed input is empty; when the trimmed input is not
\* empty and no chunk yields a non-empty PROBLEM_TEXT, EXPLANATION or ANSWER
\* section, the list is the one synthetic record (problem "Error parsing
\* problem text", answer "", explanation and the content of the one step
\* "Error" both the entire original input).
C1_FallbackRecord ==
    Returned =>
        /\ (solved = <<>>) <=> (Trim(input) = <<>>)
        /\ (Trim(input) # <<>> /\ YieldingChunks(input) = {}) =>
               solved = <<[problem |-> <<"Error parsing problem text">>,
                           answer |-> <<>>,
                           explanation |-> input,
                           steps |-> <<[title |-> "Error",
                                        content |-> input]>>]>>

\* A text without structure, with a blank line kept in the synthetic record.
C1_Witness ==
    /\ pc = "done"
    /\ input = <<"X", "">>
    /\ Len(solved) = 1
    /\ solved[1].problem = <<"Error parsing problem text">>
    /\ solved[1].explanation = <<"X", "">>

\* C2 as stated: in every record of the returned list, for every input, the
\* steps are parseSteps of that record's explanation.
C2_StepsOfEveryRecord ==
    Returned =>
        \A n \in 1..Len(solved) :
            solved[n].steps = parseSteps(solved[n].explanation)

\* C2 amended: when some chunk yields a record (the list is then made of
\* chunk records, not of the synthetic fallback record), the steps of every
\* record are parseSteps of that record's explanation.
C2_StepsOfChunkRecords ==
    (Returned /\ YieldingChunks(input) # {}) =>
        \A n \in 1..Len(solved) :
            solved[n].steps = parseSteps(solved[n].explanation)

\* A record whose problem text holds a step heading that its explanation
\* does not.
C2_Witness ==
    /\ pc = "done"
    /\ input = <<"### PROBLEM_TEXT", "#### Step 1: A", "### EXPLANATION", "X">>
    /\ Len(solved) = 1
    /\ solved[1].steps = <<[title |-> "Detailed Explanation",
                            content |-> <<"X">>]>>

\* C3, for the bodies the claim names, those holding several problems joined
\* by the separator (here with no fence line of their own inside): the fenced
\* response parses to the same list of records as the body it wraps.
C3_FencedParsesAsBody ==
    (/\ pc = "done fenced"
     /\ Len(unwrapped) >= 2
     /\ \A i \in 1..Len(body) : ~IsFenceOpen(body[i])) =>
        solved = unwrapped

\* The n-th member, in increasing order, of a set of positions.
Nth(positions, n) ==
    CHOOSE i \in positions : Cardinality({j \in positions : j < i}) = n - 1

\* C6: when some chunk yields a record, the list holds one record per
\* yielding chunk, in the chunks' order, each made of the sections of its own
\* chunk; the other chunks give no record.
C6_OneRecordPerYieldingChunk ==
    Returned =>
        LET chunks == Split(input)
            yielding == {i \in 1..Len(chunks) : Yields(chunks[i])}
        IN  yielding # {} =>
                /\ Len(solved) = Cardinality(yielding)
                /\ \A n \in 1..Len(solved) :
                       LET secs == ChunkSections(chunks[Nth(yielding, n)])
                       IN  /\ solved[n].problem = SectionOr(secs, "PROBLEM_TEXT")
                           /\ solved[n].explanation =
                                  SectionOr(secs, "EXPLANATION")
                           /\ solved[n].answer = SectionOr(secs, "ANSWER")

\* Two problems joined by the separator: two records in the original order.
C6_Witness ==
    /\ pc = "done"
    /\ input = <<"### ANSWER", "X", Separator, "### PROBLEM_TEXT", "X">>
    /\ Len(solved) = 2
    /\ solved[1].answer = <<"X">> /\ solved[1].problem = <<>>
    /\ solved[2].problem = <<"X">> /\ solved[2].answer = <<>>

(***************************************************************************)
(* Claims about getSectionsByH3 (SpecSections)                             *)
(***************************************************************************)
\* The raw text of the tokens toks[from..to], concatenated.
RECURSIVE RawOf(_, _, _)
RawOf(toks, from, to) ==
    IF from > to THEN <<>> ELSE toks[from].raw \o RawOf(toks, from + 1, to)

IsHeadingOfDepth(token, depth) ==
    token.type = "heading" /\ token.depth = depth

\* The positions of the depth-d headings of toks.
HeadingsAt(toks, depth) ==
    {i \in 1..Len(toks) : IsHeadingOfDepth(toks[i], depth)}

\* The positions of the depth-3 headings of toks whose text is key.
Occurrences(toks, key) == {i \in HeadingsAt(toks, 3) : toks[i].text = key}

Max(S) == CHOOSE x \in S : \A y \in S : y <= x
Min(S) == CHOOSE x \in S : \A y \in S : x <= y

\* The position of the first depth-d heading after position i, or one past
\* the end.
NextHeading(toks, i, depth) ==
    Min({j \in HeadingsAt(toks, depth) : j > i} \cup {Len(toks) + 1})

\* C4: when a depth-3 heading key occurs more than once, its body is only the
\* trimmed raw text of the tokens after its last occurrence, up to the next
\* depth-3 heading; no earlier occurrence leaves anything in it.
C4_LastOccurrenceWins ==
    pc = "done" =>
        \A key \in DOMAIN sections :
            Cardinality(Occurrences(tokens, key)) > 1 =>
                LET last == Max(Occurrences(tokens, key))
                IN  sections[key] =
                        Trim(RawOf(tokens, last + 1,
                                   NextHeading(tokens, last, 3) - 1))

\* Two ANSWER sections with different bodies: the second one alone is left.
C4_Witness ==
    /\ pc = "done"
    /\ input = <<"### ANSWER", "X", "### ANSWER", "## Notes", "">>
    /\ sections["ANSWER"] = <<"## Notes">>

\* The depth-3 heading that is active at position i: the last one before i,
\* or 0 when there is none.
ActiveHeading(toks, i) == Max({j \in HeadingsAt(toks, 3) : j < i} \cup {0})

\* The raw text of the tokens whose active heading is the one at position h,
\* in order, headings of other depths included.
RECURSIVE RawUnder(_, _, _)
RawUnder(toks, h, i) ==
    IF i > Len(toks) THEN <<>>
    ELSE (IF ~IsHeadingOfDepth(toks[i], 3) /\ ActiveHeading(toks, i) = h
          THEN toks[i].raw ELSE <<>>) \o RawUnder(toks, h, i + 1)

\* C9: the keys are the non-empty texts of the depth-3 headings and of no
\* other heading; each body is exactly the trimmed raw text of the tokens,
\* headings of depth 1, 2, 4, 5, 6 included, whose active depth-3 heading is
\* the (last) one of that key, so that the raw text of a token with no active
\* depth-3 heading, or with one of empty text, is in no body.
C9_OnlyDepth3Groups ==
    pc = "done" =>
        /\ DOMAIN sections =
               {tokens[i].text : i \in HeadingsAt(tokens, 3)} \ {""}
        /\ \A key \in DOMAIN sections :
               sections[key] =
                   Trim(RawUnder(tokens, Max(Occurrences(tokens, key)), 1))

\* Text before the first depth-3 heading, a depth-4 heading inside a section,
\* and text after a depth-3 heading without text.
C9_Witness ==
    /\ pc = "done"
    /\ input = <<"X", "### ANSWER", "#### Step 1: A", "###", "X">>
    /\ DOMAIN sections = {"ANSWER"}
    /\ sections["ANSWER"] = <<"#### Step 1: A">>

(***************************************************************************)
(* Claims about parseSteps (SpecSteps)                                     *)
(***************************************************************************)
\* C7: a body with at least one depth-4 heading gives one step per depth-4
\* heading, in document order; the title is the heading's text, the content
\* the trimmed raw text of the tokens up to the next depth-4 heading or the
\* end; what precedes the first depth-4 heading is in no step.
C7_OneStepPerHeading ==
    (pc = "done" /\ HeadingsAt(lexer(input), 4) # {}) =>
        LET toks == lexer(input)
        IN  /\ Len(steps) = Cardinality(HeadingsAt(toks, 4))
            /\ \A n \in 1..Len(steps) :
                   LET h == Nth(HeadingsAt(toks, 4), n)
                   IN  /\ steps[n].title = toks[h].text
                       /\ steps[n].content =
                              Trim(RawOf(toks, h + 1,
                                         NextHeading(toks, h, 4) - 1))

\* Text before the first step, then two steps with different bodies.
C7_Witness ==
    /\ pc = "done"
    /\ input = <<"C1", "#### Step 1: A", "C1", "#### Step 2: B", "C2">>
    /\ steps = <<[title |-> "Step 1: A", content |-> <<"C1">>],
                 [title |-> "Step 2: B", content |-> <<"C2">>]>>

\* C8: a body without depth-4 heading whose trimmed text is not empty gives
\* the one step "Detailed Explanation" holding the entire trimmed body; an
\* empty or whitespace-only body gives no step; a body with a depth-4 heading
\* never gives that synthetic step.
C8_DetailedExplanationFallback ==
    pc = "done" =>
        LET synthetic == <<[title |-> "Detailed Explanation",
                            content |-> Trim(input)]>>
        IN  /\ (HeadingsAt(lexer(input), 4) = {} /\ Trim(input) # <<>>) =>
                   steps = synthetic
            /\ Trim(input) = <<>> => steps = <<>>
            /\ HeadingsAt(lexer(input), 4) # {} => steps # synthetic

\* A body of two paragraphs between blank lines.
C8_Witness ==
    /\ pc = "done"
    /\ input = <<"", "C1", "", "C2", "">>
    /\ steps = <<[title |-> "Detailed Explanation",
                  content |-> <<"C1", "", "C2">>]>>

(***************************************************************************)
(* Claims about parseImproveResponse (SpecImprove)                         *)
(***************************************************************************)
\* C5: the result is null exactly when the IMPROVED_EXPLANATION and the
\* IMPROVED_ANSWER section are both absent or empty; otherwise it is a record
\* whose missing field is the empty string and whose improved_steps are
\* parseSteps of improved_explanation (no step when that is empty).
C5_NullIffBothMissing ==
    pc = "done" =>
        LET secs == ChunkSections(input)
            missing(key) == key \notin DOMAIN secs \/ secs[key] = <<>>
        IN  /\ (improved = <<>>) <=>
                   (missing("IMPROVED_EXPLANATION") /\ missing("IMPROVED_ANSWER"))
            /\ improved # <<>> =>
                   /\ Len(improved) = 1
                   /\ improved[1].improved_answer =
                          (IF missing("IMPROVED_ANSWER") THEN <<>>
                           ELSE secs["IMPROVED_ANSWER"])
                   /\ improved[1].improved_explanation =
                          (IF missing("IMPROVED_EXPLANATION") THEN <<>>
                           ELSE secs["IMPROVED_EXPLANATION"])
                   /\ improved[1].improved_steps =
                          parseSteps(improved[1].improved_explanation)
                   /\ improved[1].improved_explanation = <<>> =>
                          improved[1].improved_steps = <<>>

\* Only the answer is there: a record with an empty explanation and no step.
C5_Witness ==
    /\ pc = "done"
    /\ input = <<"### UNRELATED", "X", "### IMPROVED_ANSWER", "X">>
    /\ improved = <<[improved_answer |-> <<"X">>,
                     improved_explanation |-> <<>>,
                     improved_steps |-> <<>>]>>

(***************************************************************************)
(* OpenAiClient.sendMedia and OpenAiClient.sendChat: the loop over the      *)
(* stream's events.  A streamed text is the sequence of its characters; an  *)
(* optional field is <<>> when undefined and <<value>> otherwise.  The      *)
(* calls modelled are those that pass a callback.                           *)
(***************************************************************************)
MaxEvents == 4
MaxTick == 1
MaxPollMs == 2

None == <<>>
Some(value) == <<value>>

DeltaType == "response.output_text.delta"
ErrorType == "response.error"

\* The events of a stream: text deltas (empty, blank, a letter), a delta that
\* is not a string, errors with and without a message, any other event.
Events ==
    {[type |-> DeltaType, delta |-> Some(d), message |-> None] :
         d \in {<<>>, <<" ">>, <<"a">>}}
    \cup {[type |-> DeltaType, delta |-> None, message |-> None],
          [type |-> ErrorType, delta |-> None, message |-> Some("quota")],
          [type |-> ErrorType, delta |-> None, message |-> None],
          [type |-> "response.created", delta |-> None, message |-> None]}

\* Values of stream.finalResponse(): no text at all, an output_text, and an
\* empty output_text beside output items with and without content.
FinalResponses ==
    {[output_text |-> None, output |-> None],
     [output_text |-> Some(<<" ", "b">>),
      output |-> Some(<<[content |-> Some(<<[text |-> Some(<<"c">>)]>>)]>>)],
     [output_text |-> Some(<<>>),
      output |-> Some(<<[content |-> None],
                        [content |-> Some(<<[text |-> Some(<<"c", " ">>)],
                                            [text |-> None],
                                            [text |-> Some(<<"d", " ">>)]>>)]>>)]}

\* output.flatMap((item) => item.content ?? [])
RECURSIVE FlatContent(_)
FlatContent(output) ==
    IF output = <<>> THEN <<>>
    ELSE (IF Head(output).content = None THEN <<>>
          ELSE Head(output).content[1]) \o FlatContent(Tail(output))

\* parts.map((contentPart) => contentPart.text ?? "").join("")
RECURSIVE JoinText(_)
JoinText(parts) ==
    IF parts = <<>> THEN <<>>
    ELSE (IF Head(parts).text = None THEN <<>> ELSE Head(parts).text[1])
             \o JoinText(Tail(parts))

collectOutputText(output) ==
    IF output = None THEN <<>>
    ELSE Trim(JoinText(FlatContent(output[1])))

extractTextFromResponse(response) ==
    IF response.output_text # None /\ Len(response.output_text[1]) > 0
    THEN Trim(response.output_text[1])
    ELSE collectOutputText(response.output)

InitStream ==
    /\ pc = "streaming"
    /\ input = <<>>
    /\ ParserIdle
    /\ method \in {"sendMedia", "sendChat"}
    /\ maxPollMs \in 1..MaxPollMs
    /\ delivered = <<>>
    /\ elapsed = 0
    /\ aggregated = <<>>
    /\ calls = <<>>
    /\ aborted = FALSE
    /\ finalResponse = <<>>
    /\ returned = <<>>
    /\ thrown = <<>>
    /\ CameraIdle

\* LoopBody that tests the type of the event only, not the type of its delta.
LoopBodyAnyDelta(event, now) ==
    /\ delivered' = Append(delivered, event)
    /\ elapsed' = now
    /\ IF event.type = DeltaType
       THEN LET delta == IF event.delta = None THEN <<"?">> ELSE event.delta[1]
            IN  /\ aggregated' = aggregated \o delta
                /\ calls' = Append(calls, delta)
       ELSE UNCHANGED <<aggregated, calls>>
    /\ IF event.type = ErrorType
       THEN /\ thrown' = Some(IF event.message = None
                              THEN "OpenAI streaming error"
                              ELSE event.message[1])
            /\ pc' = "thrown"
            /\ UNCHANGED aborted
       ELSE IF now > maxPollMs
       THEN /\ aborted' = TRUE
            /\ thrown' = Some("OpenAI response polling timed out")
            /\ pc' = "thrown"
       ELSE UNCHANGED <<aborted, thrown, pc>>
    /\ UNCHANGED <<input, parserVars, cameraVars, method, maxPollMs,
                   finalResponse, returned>>

\* One iteration of the for-await loop on the event the stream delivers, now
\* being Date.now() - startTime when the iteration runs.
LoopBody(event, now) ==
    /\ delivered' = Append(delivered, event)
    /\ elapsed' = now
    /\ IF event.type = DeltaType /\ event.delta # None
       THEN /\ aggregated' = aggregated \o event.delta[1]
            /\ calls' = Append(calls, event.delta[1])
       ELSE UNCHANGED <<aggregated, calls>>
    /\ IF event.type = ErrorType
       THEN /\ thrown' = Some(IF event.message = None
                              THEN "OpenAI streaming error"
                              ELSE event.message[1])
            /\ pc' = "thrown"
            /\ UNCHANGED aborted
       ELSE IF now > maxPollMs
       THEN /\ aborted' = TRUE
            /\ thrown' = Some("OpenAI response polling timed out")
            /\ pc' = "thrown"
       ELSE UNCHANGED <<aborted, thrown, pc>>
    /\ UNCHANGED <<input, parserVars, cameraVars, method, maxPollMs,
                   finalResponse, returned>>

\* The statements after the loop, final being what stream.finalResponse()
\* resolves with.
AfterLoop(final) ==
    /\ finalResponse' = Some(final)
    /\ aggregated' = IF aggregated = <<>>
                     THEN extractTextFromResponse(final)
                     ELSE aggregated
    /\ returned' = Some(Trim(aggregated'))
    /\ pc' = "returned"
    /\ UNCHANGED <<input, parserVars, cameraVars, method, maxPollMs, delivered,
                   elapsed, calls, aborted, thrown>>

\* The stream delivers one more event.
StreamEvent ==
    /\ pc = "streaming"
    /\ Len(delivered) < MaxEvents
    /\ \E event \in Events, tick \in 0..MaxTick :
           LoopBody(event, elapsed + tick)

\* The stream ends.
StreamEnd ==
    /\ pc = "streaming"
    /\ \E final \in FinalResponses : AfterLoop(final)

SendMediaEvent == method = "sendMedia" /\ StreamEvent
SendMediaEnd == method = "sendMedia" /\ StreamEnd
SendChatEvent == method = "sendChat" /\ StreamEvent
SendChatEnd == method = "sendChat" /\ StreamEnd

NextStream ==
    SendMediaEvent \/ SendMediaEnd \/ SendChatEvent \/ SendChatEnd

SpecStream == InitStream /\ [][NextStream]_vars

(***************************************************************************)
(* Claims about sendMedia and sendChat (SpecStream)                        *)
(***************************************************************************)
IsStringDelta(event) == event.type = DeltaType /\ event.delta # None

\* The string deltas of the events, in arrival order.
RECURSIVE StringDeltas(_)
StringDeltas(events) ==
    IF events = <<>> THEN <<>>
    ELSE (IF IsStringDelta(Head(events)) THEN <<Head(events).delta[1]>>
          ELSE <<>>) \o StringDeltas(Tail(events))

\* The concatenation of a sequence of strings.
RECURSIVE Concat(_)
Concat(strings) ==
    IF strings = <<>> THEN <<>> ELSE Head(strings) \o Concat(Tail(strings))

\* The elapsed-time test failed at the last event.
TimedOut ==
    /\ delivered # <<>>
    /\ delivered[Len(delivered)].type # ErrorType
    /\ elapsed > maxPollMs

\* C10: the callback has been invoked once for each string delta delivered, in
\* arrival order; the loop goes on only while no error event has come and the
\* elapsed time has not exceeded maxPollMs, and an error event or a failed
\* time test makes the call throw and return nothing, the failed time test
\* aborting the request as well; a call that returns gives the trimmed
\* concatenation of the deltas, and the text of the final response only when
\* that concatenation is empty.
C10_StreamedText ==
    /\ calls = StringDeltas(delivered)
    /\ \A k \in 1..(Len(delivered) - 1) : delivered[k].type # ErrorType
    /\ pc = "streaming" =>
           /\ elapsed <= maxPollMs
           /\ \A k \in 1..Len(delivered) : delivered[k].type # ErrorType
    /\ pc = "thrown" <=>
           (\/ TimedOut
            \/ delivered # <<>> /\ delivered[Len(delivered)].type = ErrorType)
    /\ pc = "thrown" => (returned = None /\ thrown # None)
    /\ aborted <=> (pc = "thrown" /\ TimedOut)
    /\ pc = "returned" =>
           /\ thrown = None
           /\ returned =
                  Some(IF Concat(StringDeltas(delivered)) # <<>>
                       THEN Trim(Concat(StringDeltas(delivered)))
                       ELSE Trim(extractTextFromResponse(finalResponse[1])))

\* Deltas with blanks around a letter, then the stream ends: the trimmed
\* letter is returned and the final response's text is not used.
C10_Witness ==
    /\ pc = "returned"
    /\ method = "sendChat"
    /\ calls = <<<<" ">>, <<"a">>, <<" ">>>>
    /\ finalResponse = Some([output_text |-> Some(<<" ", "b">>),
          output |-> Some(<<[content |-> Some(<<[text |-> Some(<<"c">>)]>>)]>>)])
    /\ returned = Some(<<"a">>)

(***************************************************************************)
(* The camera flow: runCameraFlow of the upload area with                  *)
(* useNativeCamera.capture.  One action per stretch of code between two    *)
(* awaits; pc names the promise the flow is waiting for.  A url, a path or *)
(* a MIME type is the sequence of its segments between "/" (what           *)
(* split("/") returns), so the empty string is <<"">>.                     *)
(***************************************************************************)
PermissionStates == {"prompt", "granted", "denied"}
Statuses == [camera : PermissionStates, photos : PermissionStates]

WebPaths == {None, Some(<<"">>), Some(<<"blob:1">>)}
Paths == {None, Some(<<"", "DCIM", "p.jpg">>)}
Photos == [webPath : WebPaths, path : Paths]
BlobTypes == {<<"image", "png">>, <<"image", "jpeg">>, <<"">>}
Instants == {"1700000000000", "1700000000001"}

\* a ?? b
Coalesce(a, b) == IF a # None THEN a ELSE b

\* !url
Falsy(url) == url = None \/ url[1] = <<"">>

\* The promises the flow awaits, in the order of the code.
Awaited == {"checkPermissions", "requestPermissions", "getPhoto", "fetch",
            "blob"}

InitCamera ==
    /\ pc = "ready"
    /\ input = <<>>
    /\ ParserIdle
    /\ StreamIdle
    /\ isWorking \in BOOLEAN
    /\ isNative \in BOOLEAN
    /\ mounted = TRUE
    /\ captureCalls = 0
    /\ checked = None
    /\ requested = None
    /\ getPhotoCalls = 0
    /\ photo = None
    /\ files = None
    /\ appendCalls = <<>>
    /\ clicks = 0

\* granted of ensurePermissions, on the status of the check or of the request.
Granted(status) == status.camera = "granted" \/ status.photos = "granted"

\* cameraInputRef.current?.click(), the last statement of runCameraFlow.
Fallback ==
    /\ clicks' = IF mounted THEN clicks + 1 ELSE clicks
    /\ pc' = "returned"

\* AfterCapture that falls through to the click after appendFiles.
AfterCaptureNoReturn(result) ==
    /\ files' = Some(result)
    /\ appendCalls' = IF result # <<>>
                      THEN Append(appendCalls,
                                  [files |-> result, source |-> "camera"])
                      ELSE appendCalls
    /\ Fallback

\* runCameraFlow from the point where capture() resolves with result.
AfterCapture(result) ==
    /\ files' = Some(result)
    /\ IF result # <<>>
       THEN /\ appendCalls' = Append(appendCalls,
                                     [files |-> result, source |-> "camera"])
            /\ clicks' = clicks
            /\ pc' = "returned"
       ELSE /\ appendCalls' = appendCalls
            /\ Fallback

\* capture up to its first await.
CaptureStart ==
    /\ captureCalls' = captureCalls + 1
    /\ IF ~isNative
       THEN AfterCapture(<<>>)
       ELSE /\ pc' = "checkPermissions"
            /\ UNCHANGED <<files, appendCalls, clicks>>

\* runCameraFlow up to its first await.
runCameraFlow ==
    /\ pc = "ready"
    /\ IF isWorking
       THEN /\ pc' = "returned"
            /\ UNCHANGED <<captureCalls, files, appendCalls, clicks>>
       ELSE IF isNative
       THEN CaptureStart
       ELSE /\ Fallback
            /\ UNCHANGED <<captureCalls, files, appendCalls>>
    /\ UNCHANGED <<input, parserVars, streamVars, isWorking, isNative, mounted,
                   checked, requested, getPhotoCalls, photo>>

\* Camera.checkPermissions() resolves with status.
CheckPermissionsResolves ==
    /\ pc = "checkPermissions"
    /\ \E status \in Statuses :
           /\ checked' = Some(status)
           /\ IF Granted(status)
              THEN /\ getPhotoCalls' = getPhotoCalls + 1
                   /\ pc' = "getPhoto"
              ELSE /\ getPhotoCalls' = getPhotoCalls
                   /\ pc' = "requestPermissions"
    /\ UNCHANGED <<input, parserVars, streamVars, isWorking, isNative, mounted,
                   captureCalls, requested, photo, files, appendCalls, clicks>>

\* Camera.requestPermissions() resolves with status.
RequestPermissionsResolves ==
    /\ pc = "requestPermissions"
    /\ \E status \in Statuses :
           /\ requested' = Some(status)
           /\ IF Granted(status)
              THEN /\ getPhotoCalls' = getPhotoCalls + 1
                   /\ pc' = "getPhoto"
                   /\ UNCHANGED <<files, appendCalls, clicks>>
              ELSE /\ getPhotoCalls' = getPhotoCalls
                   /\ AfterCapture(<<>>)
    /\ UNCHANGED <<input, parserVars, streamVars, isWorking, isNative, mounted,
                   captureCalls, checked, photo>>

\* Camera.getPhoto() resolves with taken; convertToFile runs up to its fetch.
GetPhotoResolves ==
    /\ pc = "getPhoto"
    /\ \E taken \in Photos :
           /\ photo' = Some(taken)
           /\ IF Falsy(Coalesce(taken.webPath, taken.path))
              THEN AfterCapture(<<>>)
              ELSE /\ pc' = "fetch"
                   /\ UNCHANGED <<files, appendCalls, clicks>>
    /\ UNCHANGED <<input, parserVars, streamVars, isWorking, isNative, mounted,
                   captureCalls, checked, requested, getPhotoCalls>>

\* fetch(url) resolves.
FetchResolves ==
    /\ pc = "fetch"
    /\ pc' = "blob"
    /\ UNCHANGED <<input, parserVars, streamVars, cameraVars>>

\* The File convertToFile builds from a blob of the given type at time now.
convertToFile(taken, type, now) ==
    LET extension == IF Len(type) >= 2 THEN type[2] ELSE "jpeg"
        filename == IF taken.path # None
                    THEN <<taken.path[1][Len(taken.path[1])]>>
                    ELSE <<"photo-", now, ".", extension>>
    IN  [name |-> filename, type |-> type]

\* response.blob() resolves; convertToFile and capture return.
BlobResolves ==
    /\ pc = "blob"
    /\ \E type \in BlobTypes, now \in Instants :
           AfterCapture(<<convertToFile(photo[1], type, now)>>)
    /\ UNCHANGED <<input, parserVars, streamVars, isWorking, isNative, mounted,
                   captureCalls, checked, requested, getPhotoCalls, photo>>

\* The promise the flow is waiting for rejects: nothing catches it in
\* convertToFile, ensurePermissions, capture or runCameraFlow.
AwaitRejects ==
    /\ pc \in Awaited
    /\ pc' = "rejected"
    /\ UNCHANGED <<input, parserVars, streamVars, cameraVars>>

\* The upload area unmounts while the flow is waiting: cameraInputRef.current
\* becomes null.
Unmount ==
    /\ pc \in Awaited
    /\ mounted
    /\ mounted' = FALSE
    /\ UNCHANGED <<pc, input, parserVars, streamVars, isWorking, isNative,
                   captureCalls, checked, requested, getPhotoCalls, photo,
                   files, appendCalls, clicks>>

NextCamera ==
    \/ runCameraFlow
    \/ CheckPermissionsResolves
    \/ RequestPermissionsResolves
    \/ GetPhotoResolves
    \/ FetchResolves
    \/ BlobResolves
    \/ AwaitRejects
    \/ Unmount

SpecCamera == InitCamera /\ [][NextCamera]_vars

(***************************************************************************)
(* Claims about the camera flow (SpecCamera)                               *)
(***************************************************************************)
Finished == pc \in {"returned", "rejected"}

\* The permission was granted, by the check or by the request that followed.
PermissionGranted ==
    \/ checked # None /\ Granted(checked[1])
    \/ requested # None /\ Granted(requested[1])

\* The check and the request that followed both left the permission ungranted.
PermissionDenied ==
    /\ checked # None /\ ~Granted(checked[1])
    /\ requested # None /\ ~Granted(requested[1])

\* The calls of appendFiles carry a non-empty capture result and "camera".
AppendsCaptureResult ==
    \A i \in 1..Len(appendCalls) :
        /\ appendCalls[i].files # <<>>
        /\ files = Some(appendCalls[i].files)
        /\ appendCalls[i].source = "camera"

\* C11 as stated: a finished invocation that did not find isWorking has
\* produced exactly one of the two outcomes, one appendFiles call or one click
\* of the hidden camera input.
C11_ExactlyOneOutcome ==
    (Finished /\ ~isWorking) => Len(appendCalls) + clicks = 1

\* C11: an invocation that finds isWorking does nothing (no capture, no
\* appendFiles, no click).  Otherwise at most one of the two outcomes occurs,
\* appendFiles called once with the non-empty capture result and "camera", or
\* one click of the hidden camera input; an invocation that returns has
\* produced exactly one of them, unless the input unmounted while the flow was
\* waiting, and then an empty result produces neither; an invocation whose
\* awaited promise rejects has produced neither.  capture is called only on a
\* native platform, Camera.getPhoto at most once and only after the check or
\* the request granted camera or photos; a non-native platform or a denied
\* permission returns with no appendFiles call, and with the click when the
\* input is mounted.
C11_CameraFlow ==
    /\ isWorking =>
           /\ captureCalls = 0 /\ getPhotoCalls = 0 /\ checked = None
           /\ appendCalls = <<>> /\ clicks = 0
    /\ Len(appendCalls) + clicks <= 1
    /\ AppendsCaptureResult
    /\ (pc = "returned" /\ ~isWorking) =>
           /\ mounted => Len(appendCalls) + clicks = 1
           /\ ~mounted => Len(appendCalls) = (IF files \in {None, Some(<<>>)}
                                               THEN 0 ELSE 1)
    /\ pc = "rejected" => appendCalls = <<>> /\ clicks = 0
    /\ captureCalls > 0 => isNative
    /\ getPhotoCalls <= 1
    /\ getPhotoCalls > 0 => isNative /\ PermissionGranted
    /\ (pc = "returned" /\ ~isWorking /\ (~isNative \/ PermissionDenied)) =>
           /\ appendCalls = <<>>
           /\ files \in {None, Some(<<>>)}
           /\ mounted => clicks = 1

\* A native flow whose check left the permission ungranted, whose request got
\* it, and which appended the captured file without clicking the input.
C11_Witness ==
    /\ pc = "returned"
    /\ ~isWorking /\ isNative
    /\ ~Granted(checked[1]) /\ Granted(requested[1])
    /\ getPhotoCalls = 1
    /\ Len(appendCalls) = 1
    /\ clicks = 0

====
